---- MODULE Spec2Model ----
(***************************************************************************)
(* A model of io_export_egg.py, the Panda3D .egg exporter: the name        *)
(* sanitizers, the texture relocator, the skin weight index builder and    *)
(* the document assembler ExportEggWorker.produce_egg.                     *)
(*                                                                         *)
(* Strings that the code transforms are sequences of one-character         *)
(* strings; paths follow posixpath.                                        *)
(***************************************************************************)
EXTENDS Integers, Sequences, FiniteSets, TLC

(***************************************************************************)
(* Bounds of the model.                                                    *)
(***************************************************************************)
MaxLen == 3
MaxApply == 2
MaxVerts == 2
MaxRequests == 4
WeightDecimals == 7

(***************************************************************************)
(* Python string helpers.                                                  *)
(***************************************************************************)
Alphabet == {"a", ".", "-", " ", ":", "/", "_"}

RECURSIVE StringsUpTo(_)
StringsUpTo(n) ==
    IF n = 0 THEN {<<>>}
    ELSE LET shorter == StringsUpTo(n - 1)
         IN  shorter \cup {Append(s, c) : s \in {t \in shorter : Len(t) = n - 1},
                                          c \in Alphabet}

Strings == StringsUpTo(MaxLen)

\* str.replace(old, new) for one-character old and new
replace(s, old, new) == [i \in 1..Len(s) |-> IF s[i] = old THEN new ELSE s[i]]

\* str.rfind(c), 1-based; 0 when c does not occur (Python's -1)
rfind(s, c) ==
    LET hits == {i \in 1..Len(s) : s[i] = c}
    IN  IF hits = {} THEN 0 ELSE CHOOSE i \in hits : \A j \in hits : j <= i

\* s[i:] with a 1-based first index
suffix(s, i) == SubSeq(s, i, Len(s))

\* str.split(sep)[-1]
split_last(s, sep) == suffix(s, rfind(s, sep) + 1)

\* str.split(sep, 1)[-1]: what follows the first separator
split_after_first(s, sep) ==
    LET hits == {i \in 1..Len(s) : s[i] = sep}
    IN  IF hits = {} THEN s
        ELSE suffix(s, (CHOOSE i \in hits : \A j \in hits : i <= j) + 1)

\* posixpath.basename
basename(p) == suffix(p, rfind(p, "/") + 1)

\* posixpath.splitext: the extension starts at the last dot of the last
\* component, unless that component has only dots before it
splitext(p) ==
    LET sepIndex == rfind(p, "/")
        dotIndex == rfind(p, ".")
    IN  IF dotIndex > sepIndex
             /\ \E k \in (sepIndex + 1)..(dotIndex - 1) : p[k] # "."
        THEN [root |-> SubSeq(p, 1, dotIndex - 1), ext |-> suffix(p, dotIndex)]
        ELSE [root |-> p, ext |-> <<>>]

(***************************************************************************)
(* The name sanitizers.                                                    *)
(***************************************************************************)
good_file_name(filepath) ==
    LET filename == basename(filepath)
        name == splitext(filename).root
    IN  replace(replace(name, " ", "_"), "-", "_")

good_bone_name(bone_name) == replace(replace(bone_name, ".", "_"), "-", "_")

good_mesh_name_first_colon(mesh_name) == split_after_first(mesh_name, ":")

good_mesh_name(mesh_name) == split_last(mesh_name, ":")

good_texture_name(filepath) == replace(basename(filepath), ".", "_")

good_material_name(material_name) ==
    split_last(replace(material_name, " ", "_"), ":")

Sanitizers == {"file", "bone", "mesh", "texture", "material"}

Sanitize(f, s) ==
    CASE f = "file" -> good_file_name(s)
      [] f = "bone" -> good_bone_name(s)
      [] f = "mesh" -> good_mesh_name(s)
      [] f = "texture" -> good_texture_name(s)
      [] f = "material" -> good_material_name(s)

(***************************************************************************)
(* Python dict as an insertion-ordered list of <<key, value>> pairs.       *)
(***************************************************************************)
DictHas(d, k) == \E i \in 1..Len(d) : d[i][1] = k

DictGet(d, k) == d[CHOOSE i \in 1..Len(d) : d[i][1] = k][2]

\* d[k] = v: a new key goes last, an old key keeps its place
DictSet(d, k, v) ==
    IF DictHas(d, k)
    THEN [i \in 1..Len(d) |-> IF d[i][1] = k THEN <<k, v>> ELSE d[i]]
    ELSE Append(d, <<k, v>>)

RECURSIVE Concat(_)
Concat(ss) == IF ss = <<>> THEN <<>> ELSE Head(ss) \o Concat(Tail(ss))

Range(s) == {s[i] : i \in 1..Len(s)}

(***************************************************************************)
(* Vertex weights.  A weight is a whole number of units of                 *)
(* 10^-WeightDecimals, and                                                 *)
(* '{0:.Nf}'.format(weight) is the weight rounded to N decimals, kept as   *)
(* [prec |-> N, digits |-> the digits without the decimal point].          *)
(***************************************************************************)
RECURSIVE Pow10(_)
Pow10(n) == IF n = 0 THEN 1 ELSE 10 * Pow10(n - 1)

format_weight(precision, weight) ==
    LET unit == Pow10(WeightDecimals - precision)
    IN  [prec |-> precision, digits |-> (2 * weight + unit) \div (2 * unit)]

(***************************************************************************)
(* ExportEggWorker._mesh_to_weight_dict: the group names of a mesh object  *)
(* and, per vertex that has an in-range group, its dict group -> weight.   *)
(***************************************************************************)
RECURSIVE vertex_groups_into(_, _, _, _)
vertex_groups_into(weight_dict, v_index, groups, group_names_tot) ==
    IF groups = <<>> THEN weight_dict
    ELSE LET g == Head(groups)
             g_index == g.group
             old == IF DictHas(weight_dict, v_index)
                    THEN DictGet(weight_dict, v_index) ELSE <<>>
             next == IF g_index < group_names_tot
                     THEN DictSet(weight_dict, v_index,
                                  DictSet(old, g_index, g.weight))
                     ELSE weight_dict
         IN  vertex_groups_into(next, v_index, Tail(groups), group_names_tot)

RECURSIVE vertices_into(_, _, _, _)
vertices_into(weight_dict, vertices, i, group_names_tot) ==
    IF i > Len(vertices) THEN weight_dict
    ELSE vertices_into(
             vertex_groups_into(weight_dict, i - 1, vertices[i].groups,
                                group_names_tot),
             vertices, i + 1, group_names_tot)

mesh_to_weight_dict(mesh_obj) ==
    LET group_names == mesh_obj.vertex_groups
        group_names_tot == Len(group_names)
    IN  [group_names |-> group_names,
         weight_dict |-> IF group_names_tot = 0 THEN <<>>
                         ELSE vertices_into(<<>>, mesh_obj.data.vertices, 1,
                                            group_names_tot)]

(***************************************************************************)
(* ExportEggWorker._meshes_to_weight_dict: bone -> mesh -> quantized       *)
(* weight -> list of vertex indices.  The result is [status, dict]; the    *)
(* status is "KeyError" when a vertex group names no bone.                 *)
(***************************************************************************)
mesh_children(human) == SelectSeq(human.children, LAMBDA child : child.type = "MESH")

bone_names(human) == {human.bones[i].name : i \in 1..Len(human.bones)}

\* bpy.data.objects[mesh_name]
object_named(human, mesh_name) ==
    human.children[CHOOSE i \in 1..Len(human.children) :
                       human.children[i].name = mesh_name]

\* the (mesh, vertex, group, weight) visits of the three nested loops
mesh_visits(mesh_obj) ==
    LET r == mesh_to_weight_dict(mesh_obj)
        of_vertex(entry) ==
            [j \in 1..Len(entry[2]) |->
                [mesh_name |-> mesh_obj.name,
                 v_index |-> entry[1],
                 g_index |-> entry[2][j][1],
                 weight |-> entry[2][j][2],
                 bone_name |-> r.group_names[entry[2][j][1] + 1]]]
    IN  Concat([i \in 1..Len(r.weight_dict) |-> of_vertex(r.weight_dict[i])])

bucket_overwrite(weights, weight_str, v_index) ==
    IF weight_str \in DOMAIN weights
    THEN [weights EXCEPT ![weight_str] = <<v_index>>]
    ELSE weights @@ (weight_str :> <<v_index>>)

bucket_add(weights, weight_str, v_index) ==
    IF weight_str \notin DOMAIN weights
    THEN weights @@ (weight_str :> <<v_index>>)
    ELSE [weights EXCEPT ![weight_str] = Append(@, v_index)]

RECURSIVE visits_into(_, _, _)
visits_into(acc, visits, precision) ==
    IF visits = <<>> \/ acc.status # "ok" THEN acc
    ELSE LET v == Head(visits)
             weight_str == format_weight(precision, v.weight)
         IN  IF v.bone_name \notin DOMAIN acc.dict
             THEN [acc EXCEPT !.status = "KeyError"]
             ELSE visits_into(
                      IF v.weight # 0
                      THEN [acc EXCEPT !.dict[v.bone_name][v.mesh_name] =
                                bucket_add(@, weight_str, v.v_index)]
                      ELSE acc,
                      Tail(visits), precision)

meshes_to_weight_dict(human, precision) ==
    LET meshes == mesh_children(human)
        mesh_names == [i \in 1..Len(meshes) |-> meshes[i].name]
        empty == [b \in bone_names(human) |->
                     [m \in Range(mesh_names) |-> <<>>]]
        visits == Concat([i \in 1..Len(mesh_names) |->
                             mesh_visits(object_named(human, mesh_names[i]))])
    IN  visits_into([status |-> "ok", dict |-> empty], visits, precision)

(***************************************************************************)
(* posixpath on absolute paths without "." and ".." components.            *)
(***************************************************************************)
RECURSIVE split_path(_)
\* the components of a path, empty ones dropped
split_path(p) ==
    IF p = <<>> THEN <<>>
    ELSE LET i == IF "/" \in Range(p)
                  THEN CHOOSE k \in 1..Len(p) :
                           p[k] = "/" /\ \A j \in 1..(k - 1) : p[j] # "/"
                  ELSE Len(p) + 1
             first == SubSeq(p, 1, i - 1)
             others == split_path(suffix(p, i + 1))
         IN  IF first = <<>> THEN others ELSE <<first>> \o others

RECURSIVE join_components(_)
join_components(cs) ==
    IF cs = <<>> THEN <<>>
    ELSE IF Len(cs) = 1 THEN cs[1]
    ELSE cs[1] \o <<"/">> \o join_components(Tail(cs))

isabs(p) == p # <<>> /\ p[1] = "/"

\* os.path.join(a, b)
path_join(a, b) ==
    IF isabs(b) THEN b
    ELSE IF a = <<>> \/ a[Len(a)] = "/" THEN a \o b
    ELSE a \o <<"/">> \o b

\* os.path.dirname
dirname(p) ==
    LET head == SubSeq(p, 1, rfind(p, "/"))
        trailing == {k \in 1..Len(head) : \A j \in k..Len(head) : head[j] = "/"}
    IN  IF head # <<>> /\ Range(head) # {"/"}
        THEN SubSeq(head, 1, (CHOOSE k \in trailing :
                                  \A j \in trailing : k <= j) - 1)
        ELSE head

\* os.path.abspath of an absolute path: redundant separators collapsed
abspath(p) == <<"/">> \o join_components(split_path(p))

\* os.path.realpath: the output folder holds no symbolic link
realpath(p) == abspath(p)

\* os.path.normpath of a relative path
normpath(p) ==
    LET cs == split_path(p)
    IN  IF cs = <<>> THEN <<".">> ELSE join_components(cs)

\* os.path.relpath(path, start)
relpath(path, start) ==
    LET start_list == split_path(abspath(start))
        path_list == split_path(abspath(path))
        agree == {k \in 0..Len(start_list) :
                     /\ k <= Len(path_list)
                     /\ \A j \in 1..k : start_list[j] = path_list[j]}
        i == CHOOSE k \in agree : \A j \in agree : j <= k
        rel_list == [j \in 1..(Len(start_list) - i) |-> <<"..">>]
                    \o SubSeq(path_list, i + 1, Len(path_list))
    IN  IF rel_list = <<>> THEN <<".">> ELSE join_components(rel_list)

(***************************************************************************)
(* Scene data: the armature object `human`, its bones and its children.    *)
(***************************************************************************)
\* Python's None: as a name or a status, where an object is expected, and
\* where a path is expected
NoneValue == "None"
NoneObject == [none |-> TRUE]
NonePath == <<"<None>">>

BoneRoot == <<"r">>
BoneChildL == <<"c", ".", "L">>
BoneChildR == <<"c", "-", "R">>
NotABone == <<"x">>

Bone(name, head_local, parent, children) ==
    [name |-> name, head_local |-> head_local, parent |-> parent,
     children |-> children]

\* bones are numbered from 1; parent 0 is Python's None
ArmatureNone == <<>>
ArmatureOne == <<Bone(BoneRoot, <<0, 0, 0>>, 0, <<>>)>>
ArmatureChain == <<Bone(BoneRoot, <<0, 0, 0>>, 0, <<2>>),
                   Bone(BoneChildL, <<0, 1, 0>>, 1, <<>>)>>
ArmatureFork == <<Bone(BoneRoot, <<0, 0, 0>>, 0, <<3, 2>>),
                  Bone(BoneChildL, <<0, 1, 0>>, 1, <<>>),
                  Bone(BoneChildR, <<1, 1, 0>>, 1, <<>>)>>

VertexGroup(group, weight) == [group |-> group, weight |-> weight]

Vertex(groups) == [groups |-> groups]

MeshData(name, vertices, polygons, materials) ==
    [name |-> name, vertices |-> vertices, polygons |-> polygons,
     materials |-> materials]

Object(name, type, data, vertex_groups, active_material) ==
    [name |-> name, type |-> type, data |-> data,
     vertex_groups |-> vertex_groups, active_material |-> active_material]

Human(bones, children) == [bones |-> bones, children |-> children]

(***************************************************************************)
(* Inputs of the skin weight index builder: a first mesh with up to        *)
(* MaxVerts vertices, each in any of the groups 0 and 1 with a weight of   *)
(* 0, 0.00003 or 0.00004, and up to two vertex groups named after a bone   *)
(* or not; an object that is no mesh; a second mesh.                       *)
(***************************************************************************)
WeightPrecisions == {4, 5, 6}

WeightValues == {0, 300, 400}

GroupIndices == {0, 1}

Absent == -1

vertex_of(f) ==
    Vertex(Concat([k \in 1..2 |->
               IF f[k - 1] = Absent THEN <<>>
               ELSE <<VertexGroup(k - 1, f[k - 1])>>]))

VertexChoices == {vertex_of(f) : f \in [GroupIndices -> WeightValues \cup {Absent}]}

RECURSIVE SeqsUpTo(_, _)
SeqsUpTo(S, n) ==
    IF n = 0 THEN {<<>>}
    ELSE LET shorter == SeqsUpTo(S, n - 1)
         IN  shorter \cup {Append(s, x) : s \in {t \in shorter : Len(t) = n - 1},
                                          x \in S}

GroupNameChoices ==
    {g \in SeqsUpTo({BoneRoot, BoneChildL, NotABone}, 2) :
        \A i, j \in 1..Len(g) : g[i] = g[j] => i = j}

MeshBody == <<"b", "o">>
MeshHair == <<"m", ":", "h">>

SecondMesh ==
    Object(MeshHair, "MESH",
           MeshData(MeshHair, <<Vertex(<<VertexGroup(0, 400)>>),
                                Vertex(<<VertexGroup(0, 400)>>)>>, <<>>, <<>>),
           <<BoneChildL>>, NoneObject)

Lamp == Object(<<"l">>, "LAMP", NoneObject, <<>>, NoneObject)

WeightScenes ==
    {Human(ArmatureChain,
           <<Object(MeshBody, "MESH", MeshData(MeshBody, vs, <<>>, <<>>), gn,
                    NoneObject),
             Lamp, SecondMesh>>) :
        vs \in SeqsUpTo(VertexChoices, MaxVerts), gn \in GroupNameChoices}

(***************************************************************************)
(* Materials, texture slots, textures and images of the scene.             *)
(***************************************************************************)
Image(filepath, source, colorspace, use_alpha) ==
    [filepath |-> filepath, source |-> source, colorspace |-> colorspace,
     use_alpha |-> use_alpha]

Texture(name, type, image, extension, repeat_x, repeat_y) ==
    [name |-> name, type |-> type, image |-> image, extension |-> extension,
     repeat_x |-> repeat_x, repeat_y |-> repeat_y]

Slot(texture, texture_coords, mapping) ==
    [texture |-> texture, texture_coords |-> texture_coords, mapping |-> mapping]

Material(name, texture_slots) == [name |-> name, texture_slots |-> texture_slots]

PathSkin == <<"/", "in", "/", "skin", ".", "png">>
PathHair == <<"/", "in", "/", "hair", ".", "png">>
PathOtherSkin == <<"/", "alt", "/", "skin", ".", "png">>

(***************************************************************************)
(* The output document: a sequence of tokens.  A block is an open token,   *)
(* its content and a close token ('}'); a leaf is a line whose braces      *)
(* open and close within it, or a line without braces.                     *)
(***************************************************************************)
Open(tag, name) == [k |-> "open", tag |-> tag, val |-> name]
Close == [k |-> "close", tag |-> "}", val |-> <<>>]
Leaf(tag, val) == [k |-> "leaf", tag |-> tag, val |-> val]

NoError == [type |-> NoneValue, at |-> NoneValue]
Error(type, at) == [type |-> type, at |-> at]

\* what a writer has done so far: the document, the registry of copied
\* files, the calls of image.save_render, the printed diagnostics, and the
\* exception that ended it, if any
Context(out, copied_files, copies, log, err) ==
    [out |-> out, copied_files |-> copied_files, copies |-> copies,
     log |-> log, err |-> err]

failed(ctx) == ctx.err # NoError

(***************************************************************************)
(* ExportEggWorker._copy_texture_to_new_location.  save_ok tells whether   *)
(* image.save_render succeeds; ret is the returned path.                   *)
(***************************************************************************)
registry_after_good_copy(copied_files, filepath, save_ok) ==
    IF save_ok THEN copied_files \cup {filepath} ELSE copied_files

\* self._copied_files[filepath] = True, after the try block
registry_after_copy(copied_files, filepath, save_ok) ==
    copied_files \cup {filepath}

copy_texture_to_new_location(self, ctx, image, save_ok) ==
    LET filepath == image.filepath
        filename == basename(filepath)
    IN  IF self.tex_folder = NonePath
        THEN [ctx |-> [ctx EXCEPT !.err =
                          Error("TypeError", "_copy_texture_to_new_location")],
              ret |-> NonePath]
        ELSE
        LET newpath == abspath(path_join(self.tex_folder, filename))
            done == filepath \in ctx.copied_files
            copied ==
                IF done THEN ctx
                ELSE [ctx EXCEPT
                        !.copies = Append(@, [src |-> filepath,
                                              dst |-> newpath, ok |-> save_ok]),
                        !.log = IF save_ok THEN @
                                ELSE Append(@, "Unable to copy"),
                        !.copied_files =
                            registry_after_copy(@, filepath, save_ok)]
        IN  [ctx |-> copied,
             ret |-> IF self.use_rel_paths
                     THEN normpath(relpath(newpath, self.outFolder))
                     ELSE newpath]

(***************************************************************************)
(* The fields of a Texture record.  Each result is [val, log, err].        *)
(***************************************************************************)
Field(val, log, err) == [val |-> val, log |-> log, err |-> err]

\* the print of the else branch names colorspace_settings, which is no
\* name in scope: NameError
get_image_format(image) ==
    IF image.colorspace = "sRGB"
    THEN Field(<<"RGB">> \o (IF image.use_alpha THEN <<"A">> ELSE <<>>),
               <<>>, NoError)
    ELSE Field(<<>>, <<>>, Error("NameError", "_get_image_format"))

\* no return in the else branch: None, written as 'None'
get_texture_wrap_u(texture) ==
    IF texture.extension = "REPEAT" /\ texture.repeat_x = 1
    THEN Field(<<"repeat">>, <<>>, NoError)
    ELSE Field(<<"None">>, <<"undefined extension">>, NoError)

get_texture_wrap_v(texture) ==
    IF texture.extension = "REPEAT" /\ texture.repeat_y = 1
    THEN Field(<<"repeat">>, <<>>, NoError)
    ELSE Field(<<"None">>, <<"undefined extension">>, NoError)

get_texture_type(texture_coords, mapping) ==
    IF texture_coords = "UV" /\ mapping = "FLAT"
    THEN Field(<<"2d">>, <<>>, NoError)
    ELSE Field(<<"undefined">>, <<"undefined texture type">>, NoError)

(***************************************************************************)
(* ExportEggWorker._write_texture: relocate the image, then write the      *)
(* Texture block in one write; the fields are computed, in order, before   *)
(* anything is written.                                                    *)
(***************************************************************************)
write_texture(self, ctx, texture, texture_coords, mapping, save_ok) ==
    IF texture = NoneObject THEN ctx
    ELSE IF texture.image = NoneObject THEN ctx
    ELSE
    LET image == texture.image
        moved == copy_texture_to_new_location(self, ctx, image, save_ok)
        texname == good_texture_name(image.filepath)
        format == get_image_format(image)
        wrapu == get_texture_wrap_u(texture)
        wrapv == get_texture_wrap_v(texture)
        type == get_texture_type(texture_coords, mapping)
    IN  IF failed(moved.ctx) THEN moved.ctx
        ELSE IF format.err # NoError
        THEN [moved.ctx EXCEPT !.err = format.err]
        ELSE [moved.ctx EXCEPT
                !.log = @ \o format.log \o wrapu.log \o wrapv.log \o type.log,
                !.out = @ \o <<Open("Texture", texname),
                               Leaf("path", moved.ret),
                               Leaf("Scalar format", format.val),
                               Leaf("Scalar wrapu", wrapu.val),
                               Leaf("Scalar wrapv", wrapv.val),
                               Leaf("Scalar type", type.val),
                               Close>>]

(***************************************************************************)
(* ExportEggWorker._write_textures: every image texture of a file image,   *)
(* over the meshes, their materials and the materials' texture slots,      *)
(* unless its file is in the registry already.  unsaved is the set of      *)
(* files for which image.save_render fails.                                *)
(***************************************************************************)
imageTextures(mat) ==
    SelectSeq(mat.texture_slots,
              LAMBDA tslot :
                  /\ tslot # NoneObject
                  /\ tslot.texture.type = "IMAGE"
                  /\ tslot.texture.image # NoneObject
                  /\ tslot.texture.image.source = "FILE")

\* the slots that the three nested loops visit, in order
texture_visits(rmeshes) ==
    Concat([i \in 1..Len(rmeshes) |->
        LET materials == rmeshes[i].data.materials
        IN  Concat([j \in 1..Len(materials) |->
                IF materials[j] # NoneObject THEN imageTextures(materials[j])
                ELSE <<>>])])

RECURSIVE write_texture_visits(_, _, _, _)
write_texture_visits(self, ctx, visits, unsaved) ==
    IF visits = <<>> \/ failed(ctx) THEN ctx
    ELSE LET tslot == Head(visits)
             filepath == tslot.texture.image.filepath
         IN  write_texture_visits(
                 self,
                 IF filepath \notin ctx.copied_files
                 THEN write_texture(self, ctx, tslot.texture,
                                    tslot.texture_coords, tslot.mapping,
                                    filepath \notin unsaved)
                 ELSE ctx,
                 Tail(visits), unsaved)

write_textures(self, ctx, rmeshes, unsaved) ==
    write_texture_visits(self, ctx, texture_visits(rmeshes), unsaved)

(***************************************************************************)
(* ExportEggWorker._write_materials: one Material block per mesh, for its  *)
(* active material.                                                        *)
(***************************************************************************)
MaterialScalars ==
    <<"diffr", "diffg", "diffb", "specr", "specg", "specb", "speca",
      "ambr", "ambg", "ambb", "emitr", "emitg", "emitb", "shininess">>

material_block(mat) ==
    <<Open("Material", good_material_name(mat.name))>>
    \o [i \in 1..Len(MaterialScalars) |-> Leaf("Scalar", <<MaterialScalars[i]>>)]
    \o <<Close>>

RECURSIVE write_materials(_, _)
write_materials(ctx, rmeshes) ==
    IF rmeshes = <<>> \/ failed(ctx) THEN ctx
    ELSE LET mat == Head(rmeshes).active_material
         IN  write_materials(
                 IF mat = NoneObject
                 THEN [ctx EXCEPT !.err =
                          Error("AttributeError", "_write_materials")]
                 ELSE [ctx EXCEPT !.out = @ \o material_block(mat)],
                 Tail(rmeshes))

(***************************************************************************)
(* The geometry of a mesh: vertices are numbered from 0; a polygon has a   *)
(* material index, the vertex index of each of its loops and the UV        *)
(* coordinate of each loop.                                                *)
(***************************************************************************)
Polygon(material_index, vertices, uvs) ==
    [material_index |-> material_index, vertices |-> vertices, uvs |-> uvs]

\* bmesh: the loops of the faces at a vertex, as [face, uv]
link_loops(mesh, v_index) ==
    Concat([f \in 1..Len(mesh.polygons) |->
        LET poly == mesh.polygons[f]
        IN  Concat([c \in 1..Len(poly.vertices) |->
                IF poly.vertices[c] = v_index
                THEN <<[face |-> f, uv |-> poly.uvs[c]]>> ELSE <<>>])])

NoUV == <<>>

\* ExportEggWorker._uv_from_vert_first
uv_from_vert_first(mesh, v_index) ==
    LET loops == link_loops(mesh, v_index)
    IN  IF loops # <<>> THEN <<loops[1].uv>> ELSE NoUV

\* the names of the image textures of a material, as _uv_from_vert_set and
\* _write_polygons list them; err when such a texture has no image
texture_names(mat, at) ==
    LET slots == SelectSeq(mat.texture_slots,
                           LAMBDA tslot : /\ tslot # NoneObject
                                          /\ tslot.texture.type = "IMAGE")
    IN  IF \E i \in 1..Len(slots) : slots[i].texture.image = NoneObject
        THEN Field(<<>>, <<>>, Error("AttributeError", at))
        ELSE Field([i \in 1..Len(slots) |->
                       good_texture_name(slots[i].texture.image.filepath)],
                   <<>>, NoError)

\* ExportEggWorker._uv_from_vert_set: its result is not used, its
\* exceptions are; the loop variable is unbound at a vertex without loops
uv_from_vert_set(mesh, v_index) ==
    LET loops == link_loops(mesh, v_index)
    IN  IF loops = <<>>
        THEN Error("UnboundLocalError", "_uv_from_vert_set")
        ELSE LET mat == mesh.materials[
                            mesh.polygons[loops[Len(loops)].face].material_index + 1]
             IN  IF mat = NoneObject
                 THEN Error("AttributeError", "_uv_from_vert_set")
                 ELSE texture_names(mat, "_uv_from_vert_set").err

(***************************************************************************)
(* ExportEggWorker._write_vertex: three writes and one per nonzero weight, *)
(* then the closing write.                                                 *)
(***************************************************************************)
write_vertex(ctx, v_index, mesh, group_names, weights) ==
    LET uv_first == uv_from_vert_first(mesh, v_index)
        uv_set_err == uv_from_vert_set(mesh, v_index)
        opened == <<Open("Vertex", <<v_index>>), Leaf("co", <<v_index>>)>>
        comments == Concat([i \in 1..Len(weights) |->
                       IF weights[i][2] # 0
                       THEN <<Leaf("//", good_bone_name(
                                             group_names[weights[i][1] + 1]))>>
                       ELSE <<>>])
    IN  IF uv_set_err # NoError THEN [ctx EXCEPT !.err = uv_set_err]
        ELSE IF uv_first = NoUV
        THEN [ctx EXCEPT !.out = @ \o opened,
                         !.err = Error("TypeError", "_write_vertex")]
        ELSE [ctx EXCEPT !.out = @ \o opened
                                   \o <<Leaf("UV", uv_first),
                                        Leaf("Normal", <<v_index>>)>>
                                   \o comments \o <<Close>>]

(***************************************************************************)
(* ExportEggWorker._write_vertexPool.  A vertex that has no in-range group *)
(* is no key of the weight dict: weight_dict[vertex.index] is a KeyError.  *)
(***************************************************************************)
\* weight_dict[vertex.index]
weights_of_vertex(weight_dict, v_index) ==
    IF DictHas(weight_dict, v_index)
    THEN [found |-> TRUE, weights |-> DictGet(weight_dict, v_index)]
    ELSE [found |-> FALSE, weights |-> <<>>]

RECURSIVE write_vertices(_, _, _, _, _)
write_vertices(ctx, i, mesh, group_names, weight_dict) ==
    IF i > Len(mesh.vertices) \/ failed(ctx) THEN ctx
    ELSE LET w == weights_of_vertex(weight_dict, i - 1)
         IN  write_vertices(
                 IF ~w.found
                 THEN [ctx EXCEPT !.err = Error("KeyError", "_write_vertexPool")]
                 ELSE write_vertex(ctx, i - 1, mesh, group_names, w.weights),
                 i + 1, mesh, group_names, weight_dict)

pool_name(name) == good_mesh_name(name) \o <<"_Mesh">>

write_vertexPool(ctx, mesh_obj) ==
    LET mesh == mesh_obj.data
        r == mesh_to_weight_dict(mesh_obj)
        opened == [ctx EXCEPT !.out = Append(@, Open("VertexPool",
                                                     pool_name(mesh.name)))]
        written == write_vertices(opened, 1, mesh, r.group_names, r.weight_dict)
    IN  IF failed(written) THEN written
        ELSE [written EXCEPT !.out = Append(@, Close)]

(***************************************************************************)
(* ExportEggWorker._write_polygons.                                        *)
(***************************************************************************)
polygon_block(mesh, p_index, names) ==
    LET poly == mesh.polygons[p_index + 1]
        mat == mesh.materials[poly.material_index + 1]
    IN  <<Open("Polygon", <<p_index>>)>>
        \o [i \in 1..Len(names) |-> Leaf("TRef", names[i])]
        \o <<Leaf("MRef", good_material_name(mat.name)),
             Open("VertexRef", <<>>)>>
        \o [i \in 1..Len(poly.vertices) |-> Leaf("index", <<poly.vertices[i]>>)]
        \o <<Leaf("Ref", pool_name(mesh.name)), Close, Close>>

RECURSIVE write_polygons_from(_, _, _)
write_polygons_from(ctx, mesh, i) ==
    IF i > Len(mesh.polygons) \/ failed(ctx) THEN ctx
    ELSE LET mat == mesh.materials[mesh.polygons[i].material_index + 1]
             names == texture_names(mat, "_write_polygons")
         IN  write_polygons_from(
                 IF mat = NoneObject
                 THEN [ctx EXCEPT !.err =
                          Error("AttributeError", "_write_polygons")]
                 ELSE IF names.err # NoError
                 THEN [ctx EXCEPT !.err = names.err]
                 ELSE [ctx EXCEPT !.out = @ \o polygon_block(mesh, i - 1,
                                                              names.val)],
                 mesh, i + 1)

write_polygons(ctx, mesh) == write_polygons_from(ctx, mesh, 1)

(***************************************************************************)
(* ExportEggWorker._write_mesh_object.                                     *)
(***************************************************************************)
write_mesh_object(ctx, mesh_obj) ==
    LET opened == [ctx EXCEPT !.out = Append(@, Open("Group",
                                                     pool_name(mesh_obj.name)))]
        pool == write_vertexPool(opened, mesh_obj)
        polygons == IF failed(pool) THEN pool
                    ELSE write_polygons(pool, mesh_obj.data)
    IN  IF failed(polygons) THEN polygons
        ELSE [polygons EXCEPT !.out = Append(@, Close)]

(***************************************************************************)
(* Python's order of strings: by code point, a prefix first.               *)
(***************************************************************************)
CodePoints ==
    <<" ", "-", ".", "/", "0", "1", "2", "3", "4", "5", "6", "7", "8", "9",
      ":", "L", "R", "_", "a", "b", "c", "h", "l", "m", "o", "r", "x">>

ord(c) == CHOOSE i \in 1..Len(CodePoints) : CodePoints[i] = c

RECURSIVE str_less(_, _)
str_less(a, b) ==
    IF b = <<>> THEN FALSE
    ELSE IF a = <<>> THEN TRUE
    ELSE IF a[1] # b[1] THEN ord(a[1]) < ord(b[1])
    ELSE str_less(Tail(a), Tail(b))

\* sorted(S) for a set of keys, by the order of their texts
RECURSIVE sorted_by(_, _)
sorted_by(S, text) ==
    IF S = {} THEN <<>>
    ELSE LET least == CHOOSE x \in S :
                          \A y \in S \ {x} : str_less(text[x], text[y])
         IN  <<least>> \o sorted_by(S \ {least}, text)

RECURSIVE sorted_numbers(_)
sorted_numbers(S) ==
    IF S = {} THEN <<>>
    ELSE LET least == CHOOSE x \in S : \A y \in S : x <= y
         IN  <<least>> \o sorted_numbers(S \ {least})

\* sorted(list) of vertex indices: equal indices stay, side by side
sorted_list(s) ==
    Concat([i \in 1..Len(sorted_numbers(Range(s))) |->
        SelectSeq(s, LAMBDA x : x = sorted_numbers(Range(s))[i])])

Digits == <<"0", "1", "2", "3", "4", "5", "6", "7", "8", "9">>

RECURSIVE decimal(_)
decimal(n) ==
    IF n < 10 THEN <<Digits[n + 1]>>
    ELSE Append(decimal(n \div 10), Digits[(n % 10) + 1])

RECURSIVE padded(_, _)
padded(n, width) ==
    IF width = 0 THEN <<>>
    ELSE Append(padded(n \div 10, width - 1), Digits[(n % 10) + 1])

\* the text of a formatted weight: '0.1234'
weight_text(weight_str) ==
    LET unit == Pow10(weight_str.prec)
    IN  decimal(weight_str.digits \div unit) \o <<".">>
        \o padded(weight_str.digits % unit, weight_str.prec)

(***************************************************************************)
(* ExportEggWorker._write_bone_vertex_ref, _write_bone_translation,        *)
(* _write_bone and _write_armature.                                        *)
(***************************************************************************)
vertex_ref_block(mesh_name, weight_str, vertex_indices) ==
    <<Open("VertexRef", <<>>)>>
    \o [i \in 1..Len(vertex_indices) |->
           Leaf("index", <<sorted_list(vertex_indices)[i]>>)]
    \o <<Leaf("Scalar membership", weight_text(weight_str)),
         Leaf("Ref", pool_name(mesh_name)), Close>>

\* the records in descending order of the mesh names and of the weights
write_bone_vertex_ref_descending(meshes_weights) ==
    LET mesh_names == sorted_by(DOMAIN meshes_weights,
                                [m \in DOMAIN meshes_weights |-> m])
    IN  Concat([i \in 1..Len(mesh_names) |->
            LET mesh_name == mesh_names[Len(mesh_names) + 1 - i]
                weights_dict == meshes_weights[mesh_name]
                weights == sorted_by(DOMAIN weights_dict,
                               [w \in DOMAIN weights_dict |-> weight_text(w)])
            IN  Concat([j \in 1..Len(weights) |->
                    vertex_ref_block(mesh_name, weights[Len(weights) + 1 - j],
                        weights_dict[weights[Len(weights) + 1 - j]])])])

write_bone_vertex_ref(meshes_weights) ==
    LET mesh_names == sorted_by(DOMAIN meshes_weights,
                                [m \in DOMAIN meshes_weights |-> m])
    IN  Concat([i \in 1..Len(mesh_names) |->
            LET weights_dict == meshes_weights[mesh_names[i]]
                weights == sorted_by(DOMAIN weights_dict,
                               [w \in DOMAIN weights_dict |-> weight_text(w)])
            IN  Concat([j \in 1..Len(weights) |->
                    vertex_ref_block(mesh_names[i], weights[j],
                                     weights_dict[weights[j]])])])

bone_translation(bones, b) ==
    LET loc == bones[b].head_local
        from == IF bones[b].parent # 0 THEN bones[bones[b].parent].head_local
                ELSE <<0, 0, 0>>
    IN  Leaf("Translate", [i \in 1..3 |-> loc[i] - from[i]])

RECURSIVE write_bone(_, _, _)
write_bone(bones, b, bones_weights) ==
    <<Open("Joint", good_bone_name(bones[b].name)),
      Open("Transform", <<>>), bone_translation(bones, b), Close>>
    \o Concat([i \in 1..Len(bones[b].children) |->
                  write_bone(bones, bones[b].children[i], bones_weights)])
    \o write_bone_vertex_ref(bones_weights[bones[b].name])
    \o <<Close>>

write_armature(ctx, human_obj, precision) ==
    LET bone_weight_dict == meshes_to_weight_dict(human_obj, precision)
        roots == SelectSeq([i \in 1..Len(human_obj.bones) |-> i],
                           LAMBDA b : human_obj.bones[b].parent = 0)
    IN  IF bone_weight_dict.status # "ok"
        THEN [ctx EXCEPT !.err = Error("KeyError", "_meshes_to_weight_dict")]
        ELSE IF roots = <<>>
        THEN [ctx EXCEPT !.err = Error("IndexError", "_write_armature")]
        ELSE [ctx EXCEPT !.out = @ \o write_bone(human_obj.bones, roots[1],
                                                 bone_weight_dict.dict)]

(***************************************************************************)
(* Scenes of the export.  A texture slot departs from the recognized       *)
(* settings in at most one place.                                          *)
(***************************************************************************)
SlotGood(filepath) ==
    Slot(Texture(<<"t">>, "IMAGE", Image(filepath, "FILE", "sRGB", FALSE),
                 "REPEAT", 1, 1), "UV", "FLAT")

SlotChoices ==
    {Slot(Texture(<<"t">>, type, Image(PathSkin, source, colorspace, use_alpha),
                  extension, repeat_x, repeat_y), texture_coords, mapping) :
        type \in {"IMAGE", "CLOUDS"}, source \in {"FILE", "GENERATED"},
        colorspace \in {"sRGB", "Linear"}, use_alpha \in BOOLEAN,
        extension \in {"REPEAT", "CLIP"}, repeat_x \in {1, 2},
        repeat_y \in {1, 2}, texture_coords \in {"UV", "ORCO"},
        mapping \in {"FLAT", "SPHERE"}}

departures(tslot) ==
    Cardinality(
        {n \in 1..9 :
            <<tslot.texture.type # "IMAGE",
              tslot.texture.image.source # "FILE",
              tslot.texture.image.colorspace # "sRGB",
              tslot.texture.image.use_alpha,
              tslot.texture.extension # "REPEAT",
              tslot.texture.repeat_x # 1,
              tslot.texture.repeat_y # 1,
              tslot.texture_coords # "UV",
              tslot.mapping # "FLAT">>[n]})

SlotNoImage ==
    Slot(Texture(<<"n">>, "IMAGE", NoneObject, "REPEAT", 1, 1), "UV", "FLAT")

SkinSlotChoices ==
    {<<>>, <<SlotNoImage>>}
    \cup {<<tslot>> : tslot \in {t \in SlotChoices : departures(t) <= 1}}

SkinName == <<"h", ":", "s", " ", "k">>
HairName == <<"h", "a">>

Hair == Material(HairName, <<NoneObject, SlotGood(PathSkin), SlotGood(PathHair)>>)

\* one polygon: over all the vertices, or over the first vertex alone
PolygonOver(material_index, n) ==
    <<Polygon(material_index, [i \in 1..n |-> i - 1], [i \in 1..n |-> i])>>

MainVertexChoices ==
    {Vertex(<<>>), Vertex(<<VertexGroup(0, 400)>>),
     Vertex(<<VertexGroup(0, 300), VertexGroup(1, 0)>>)}

MainGroupNames == {<<>>, <<BoneRoot, BoneChildL>>, <<NotABone>>}

GoodVertices == <<Vertex(<<VertexGroup(0, 400)>>),
                  Vertex(<<VertexGroup(0, 300), VertexGroup(1, 400)>>)>>

\* the first mesh: its materials, of which polygons use the last, and its
\* active material
BodyMesh(skin, mats, active, vertices, group_names, covered) ==
    Object(MeshBody, "MESH",
           MeshData(MeshBody, vertices, PolygonOver(Len(mats) - 1, covered), mats),
           group_names, active)

HairMesh(skin) ==
    Object(MeshHair, "MESH",
           MeshData(MeshHair, GoodVertices, PolygonOver(0, 2), <<skin>>),
           <<BoneChildL, BoneRoot>>, skin)

MaterialChoices(skin) ==
    {[mats |-> <<skin>>, active |-> skin],
     [mats |-> <<skin, Hair>>, active |-> Hair],
     [mats |-> <<NoneObject, skin>>, active |-> skin],
     [mats |-> <<skin>>, active |-> NoneObject]}

ChildrenChoices(body, skin) == {<<body>>, <<body, Lamp, HairMesh(skin)>>}

\* scenes that differ in their textures and materials
TextureScenes ==
    UNION {UNION {
        {Human(ArmatureChain, c) :
            c \in ChildrenChoices(
                     BodyMesh(Material(SkinName, slots), m.mats, m.active,
                              GoodVertices, <<BoneRoot, BoneChildL>>, 2),
                     Material(SkinName, slots))} :
        m \in MaterialChoices(Material(SkinName, slots))} :
        slots \in SkinSlotChoices}

\* scenes that differ in their geometry, vertex groups and bones
GeometryScenes ==
    LET skin == Material(SkinName, <<SlotGood(PathSkin)>>)
    IN  UNION {UNION {
            {Human(bones, c) :
                c \in ChildrenChoices(
                         BodyMesh(skin, <<skin>>, skin, vs, gn, covered), skin),
                bones \in {ArmatureNone, ArmatureOne, ArmatureFork}} :
            covered \in {1, Len(vs)}, gn \in MainGroupNames} :
            vs \in SeqsUpTo(MainVertexChoices, MaxVerts) \ {<<>>}}

\* the operator's inputs: the selected object, vertex_membership_precision
\* and use_rel_paths (by default 4 and TRUE)
Execution(human_obj, precision, rel) ==
    [human |-> human_obj, precision |-> precision, use_rel_paths |-> rel]

Executions ==
    {Execution(h, 4, rel) : h \in TextureScenes, rel \in BOOLEAN}
    \cup {Execution(h, p, TRUE) : h \in GeometryScenes, p \in WeightPrecisions}

(***************************************************************************)
(* State.                                                                  *)
(***************************************************************************)
VARIABLES
    human,             \* the selected armature object
    weight_precision,  \* the operator's vertex_membership_precision
    weight_index,      \* what _meshes_to_weight_dict returned, or "unset"
    use_rel_paths,     \* ExportEggWorker._use_rel_paths
    copied_files,      \* ExportEggWorker._copied_files: the keys of the dict
    tex_folder,        \* ExportEggWorker._tex_folder
    outFolder,         \* ExportEggWorker._outFolder
    copies,            \* the calls of image.save_render: [src, dst, ok]
    log,               \* the diagnostics printed
    reloc_returns,     \* what the relocator returned to direct requests
    arg_use_rel_paths, \* the operator's use_rel_paths, passed to __init__
    filename,          \* ExportEggWorker._filename
    egg_fp,            \* ExportEggWorker._egg_fp: "None" or "stream"
    tex_dir,           \* the textures folder: present, absent or uncreatable
    stream,            \* how often the output file was opened and closed
    out,               \* the tokens written to the output file
    pc,                \* where execute and produce_egg stand
    mesh_i,            \* the mesh that _write_groups writes next
    exc,               \* the exception raised, if any
    san_fn,      \* the sanitizer under application
    san_in,      \* the name it was first given
    san_prev,    \* its argument at the last application
    san_cur,     \* the current name: the input, then each result
    san_count    \* how many times it was applied

sceneVars == <<human, weight_precision>>

sanVars == <<san_fn, san_in, san_prev, san_cur, san_count>>

workerVars == <<use_rel_paths, copied_files, tex_folder, outFolder>>

envVars == <<copies, log>>

runVars == <<arg_use_rel_paths, filename, egg_fp, tex_dir, stream, out, pc,
             mesh_i, exc>>

vars == <<sceneVars, weight_index, workerVars, envVars, reloc_returns, runVars,
          sanVars>>

\* the worker's fields as the writers read them
Self ==
    [use_rel_paths |-> use_rel_paths, tex_folder |-> tex_folder,
     outFolder |-> outFolder]

EggFilepath == <<"/", "out", "/", "my", "-", "x", ".", "egg">>

\* no worker constructed: its fields hold nothing that is read
NoWorker ==
    /\ use_rel_paths = FALSE /\ copied_files = {}
    /\ tex_folder = NonePath /\ outFolder = NonePath
    /\ copies = <<>> /\ log = <<>>

NoRequests == reloc_returns = <<>>

\* no export under way
NoRun ==
    /\ arg_use_rel_paths = FALSE /\ filename = <<>> /\ egg_fp = NoneValue
    /\ tex_dir = "present" /\ stream = [opened |-> 0, closed |-> 0]
    /\ out = <<>> /\ pc = "idle" /\ mesh_i = 0 /\ exc = NoError

NoScene == human = NoneObject /\ weight_precision = 4

NoWeightIndex == weight_index = [status |-> "unset"]

NoNames ==
    san_fn = NoneValue /\ san_in = <<>> /\ san_prev = <<>> /\ san_cur = <<>> /\ san_count = 0

(***************************************************************************)
(* Repeated application of one sanitizer to a name.                        *)
(***************************************************************************)
InitNames ==
    /\ san_fn \in Sanitizers
    /\ san_in \in Strings
    /\ san_cur = san_in
    /\ san_prev = san_cur
    /\ san_count = 0
    /\ NoScene /\ NoWeightIndex /\ NoWorker /\ NoRequests /\ NoRun

ApplySanitizer(f) ==
    /\ san_fn = f
    /\ san_count < MaxApply
    /\ san_prev' = san_cur
    /\ san_cur' = Sanitize(f, san_cur)
    /\ san_count' = san_count + 1
    /\ UNCHANGED <<san_fn, san_in, sceneVars, weight_index, workerVars, envVars,
                   reloc_returns, runVars>>

ApplyGoodFileName == ApplySanitizer("file")
ApplyGoodBoneName == ApplySanitizer("bone")
ApplyGoodMeshName == ApplySanitizer("mesh")
ApplyGoodTextureName == ApplySanitizer("texture")
ApplyGoodMaterialName == ApplySanitizer("material")

NextNames ==
    \/ ApplyGoodFileName
    \/ ApplyGoodBoneName
    \/ ApplyGoodMeshName
    \/ ApplyGoodTextureName
    \/ ApplyGoodMaterialName

SpecNames == InitNames /\ [][NextNames]_vars

(***************************************************************************)
(* The skin weight index builder applied to a scene.                       *)
(***************************************************************************)
InitWeights ==
    /\ human \in WeightScenes
    /\ weight_precision \in WeightPrecisions
    /\ NoWeightIndex /\ NoNames /\ NoWorker /\ NoRequests /\ NoRun

MeshesToWeightDict ==
    /\ weight_index.status = "unset"
    /\ weight_index' = meshes_to_weight_dict(human, weight_precision)
    /\ UNCHANGED <<sceneVars, sanVars, workerVars, envVars, reloc_returns, runVars>>

NextWeights == MeshesToWeightDict

SpecWeights == InitWeights /\ [][NextWeights]_vars

(***************************************************************************)
(* Requests to the texture relocator of a constructed worker, for images   *)
(* of three files, two of which have the same base name.                   *)
(***************************************************************************)
RelocImages ==
    {Image(fp, "FILE", "sRGB", FALSE) : fp \in {PathSkin, PathHair, PathOtherSkin}}

InitReloc ==
    /\ use_rel_paths = TRUE
    /\ copied_files = {}
    /\ outFolder = realpath(dirname(EggFilepath))
    /\ tex_folder = path_join(outFolder, <<"textures">>)
    /\ copies = <<>> /\ log = <<>>
    /\ reloc_returns = <<>>
    /\ NoScene /\ NoWeightIndex /\ NoNames /\ NoRun

CopyTextureToNewLocation ==
    /\ Len(reloc_returns) < MaxRequests
    /\ \E image \in RelocImages, save_ok \in BOOLEAN :
         LET r == copy_texture_to_new_location(
                      Self, Context(<<>>, copied_files, copies, log, NoError),
                      image, save_ok)
         IN  /\ copied_files' = r.ctx.copied_files
             /\ copies' = r.ctx.copies
             /\ log' = r.ctx.log
             /\ reloc_returns' = Append(reloc_returns,
                                        [src |-> image.filepath, ret |-> r.ret])
    /\ UNCHANGED <<use_rel_paths, tex_folder, outFolder, sceneVars,
                   weight_index, sanVars, runVars>>

NextReloc == CopyTextureToNewLocation

SpecReloc == InitReloc /\ [][NextReloc]_vars

(***************************************************************************)
(* ExportEggOperator.execute: construct the worker, then produce_egg.      *)
(***************************************************************************)
Init ==
    /\ \E e \in Executions :
         /\ human = e.human
         /\ weight_precision = e.precision
         /\ arg_use_rel_paths = e.use_rel_paths
    /\ tex_dir \in {"present", "absent", "uncreatable"}
    /\ pc = "execute"
    /\ filename = <<>> /\ egg_fp = NoneValue
    /\ stream = [opened |-> 0, closed |-> 0]
    /\ out = <<>> /\ mesh_i = 0 /\ exc = NoError
    /\ NoWorker /\ NoWeightIndex /\ NoRequests /\ NoNames

\* ExportEggWorker._get_sub_folder: the folder, or the exception of the
\* print in the except branch, whose format string takes no argument
get_sub_folder(out_folder, dir) ==
    LET folder == path_join(out_folder, <<"textures">>)
    IN  IF dir = "present" THEN [folder |-> folder, err |-> NoError, dir |-> dir]
        ELSE IF dir = "absent"
        THEN [folder |-> folder, err |-> NoError, dir |-> "present"]
        ELSE [folder |-> NonePath,
              err |-> Error("TypeError", "_get_sub_folder"), dir |-> dir]

\* ExportEggWorker.__init__ with _setup_tex_folder
ExportEggWorkerInit ==
    /\ pc = "execute"
    /\ LET sub == get_sub_folder(realpath(dirname(EggFilepath)), tex_dir)
       IN  /\ use_rel_paths' = TRUE
           /\ copied_files' = {}
           /\ egg_fp' = NoneValue
           /\ filename' = good_file_name(EggFilepath)
           /\ outFolder' = realpath(dirname(EggFilepath))
           /\ tex_folder' = sub.folder
           /\ tex_dir' = sub.dir
           /\ exc' = sub.err
           /\ pc' = IF sub.err = NoError THEN "produce_egg" ELSE "raised"
    /\ UNCHANGED <<sceneVars, weight_index, envVars, reloc_returns,
                   arg_use_rel_paths, stream, out, mesh_i, sanVars>>

meshes == mesh_children(human)

\* the writer's context from the state, and back
Ctx == Context(out, copied_files, copies, log, NoError)

Becomes(ctx, next_pc) ==
    /\ out' = ctx.out
    /\ copied_files' = ctx.copied_files
    /\ copies' = ctx.copies
    /\ log' = ctx.log
    /\ exc' = ctx.err
    /\ pc' = IF failed(ctx) THEN "finally" ELSE next_pc

Raises(err) == Becomes([Ctx EXCEPT !.err = err], "finally")

\* the write fails: IOError
WriteFails == Raises(Error("IOError", "write"))

\* produce_egg up to the opening of the output file
ProduceEggOpen ==
    /\ pc = "produce_egg"
    /\ \E open_ok \in BOOLEAN :
         /\ egg_fp' = IF open_ok THEN "stream" ELSE NoneValue
         /\ stream' = IF open_ok THEN [stream EXCEPT !.opened = @ + 1] ELSE stream
         /\ log' = Append(log, IF open_ok THEN "Writing Egg file"
                               ELSE "Unable to open file for writing")
    /\ pc' = "header"
    /\ UNCHANGED <<sceneVars, weight_index, workerVars, copies, reloc_returns,
                   arg_use_rel_paths, filename, tex_dir, out, mesh_i, exc,
                   sanVars>>

header ==
    <<Leaf("CoordinateSystem", <<"Z-Up">>), Open("Comment", <<>>),
      Leaf("text", filename \o <<".egg">>), Close>>

WriteHeader ==
    /\ pc = "header"
    /\ IF egg_fp = NoneValue
       THEN Raises(Error("AttributeError", "produce_egg"))
       ELSE \/ Becomes([Ctx EXCEPT !.out = @ \o header,
                                   !.log = Append(@, "Exporting textures")],
                       "textures")
            \/ WriteFails
    /\ UNCHANGED <<sceneVars, weight_index, use_rel_paths, tex_folder,
                   outFolder, reloc_returns, arg_use_rel_paths, filename,
                   egg_fp, tex_dir, stream, mesh_i, sanVars>>

ScenePaths == {PathSkin, PathHair}

WriteTextures ==
    /\ pc = "textures"
    /\ \E unsaved \in SUBSET ScenePaths :
         LET ctx == write_textures(Self, Ctx, meshes, unsaved)
         IN  Becomes(IF failed(ctx) THEN ctx
                     ELSE [ctx EXCEPT !.log = Append(@, "Exporting materials")],
                     "materials")
    /\ UNCHANGED <<sceneVars, weight_index, use_rel_paths, tex_folder,
                   outFolder, reloc_returns, arg_use_rel_paths, filename,
                   egg_fp, tex_dir, stream, mesh_i, sanVars>>

WriteMaterials ==
    /\ pc = "materials"
    /\ \/ LET ctx == write_materials(Ctx, meshes)
          IN  Becomes(IF failed(ctx) THEN ctx
                      ELSE [ctx EXCEPT !.log =
                               Append(@, "Exporting geometry & armature")],
                      "groups")
       \/ meshes # <<>> /\ WriteFails
    /\ UNCHANGED <<sceneVars, weight_index, use_rel_paths, tex_folder,
                   outFolder, reloc_returns, arg_use_rel_paths, filename,
                   egg_fp, tex_dir, stream, mesh_i, sanVars>>

\* where _write_groups goes after the meshes before the i-th
after_mesh(i) ==
    IF i <= Len(meshes) THEN "mesh"
    ELSE IF Len(human.bones) > 0 THEN "armature" ELSE "end_groups"

\* _write_groups up to the loop over the meshes
WriteGroupsOpen ==
    /\ pc = "groups"
    /\ \/ Becomes([Ctx EXCEPT !.out =
                      @ \o <<Open("Group", filename)>>
                        \o (IF Len(human.bones) > 0
                            THEN <<Leaf("Dart", <<1>>)>> ELSE <<>>)
                        \o <<Open("Group", <<"CharacterRoot">>)>>],
                  after_mesh(1))
       \/ WriteFails
    /\ mesh_i' = 1
    /\ UNCHANGED <<sceneVars, weight_index, use_rel_paths, tex_folder,
                   outFolder, reloc_returns, arg_use_rel_paths, filename,
                   egg_fp, tex_dir, stream, sanVars>>

\* one turn of the loop: _write_mesh_object
WriteMeshObject ==
    /\ pc = "mesh"
    /\ \/ Becomes(write_mesh_object(Ctx, meshes[mesh_i]), after_mesh(mesh_i + 1))
       \/ WriteFails
    /\ mesh_i' = mesh_i + 1
    /\ UNCHANGED <<sceneVars, weight_index, use_rel_paths, tex_folder,
                   outFolder, reloc_returns, arg_use_rel_paths, filename,
                   egg_fp, tex_dir, stream, sanVars>>

WriteArmature ==
    /\ pc = "armature"
    /\ \/ /\ Becomes(write_armature(Ctx, human, weight_precision), "end_groups")
          /\ weight_index' = meshes_to_weight_dict(human, weight_precision)
       \/ WriteFails /\ UNCHANGED weight_index
    /\ UNCHANGED <<sceneVars, use_rel_paths, tex_folder,
                   outFolder, reloc_returns, arg_use_rel_paths, filename,
                   egg_fp, tex_dir, stream, mesh_i, sanVars>>

\* the last write of _write_groups
WriteGroupsClose ==
    /\ pc = "end_groups"
    /\ \/ Becomes([Ctx EXCEPT !.out = @ \o <<Close, Close>>], "finally")
       \/ WriteFails
    /\ UNCHANGED <<sceneVars, weight_index, use_rel_paths, tex_folder,
                   outFolder, reloc_returns, arg_use_rel_paths, filename,
                   egg_fp, tex_dir, stream, mesh_i, sanVars>>

\* the file is closed when control leaves the try block without an exception
closes_on_success(fp, err) == fp # NoneValue /\ err = NoError

\* the finally clause: if self._egg_fp: self._egg_fp.close()
finally_closes(fp, err) == fp # NoneValue

Finally ==
    /\ pc = "finally"
    /\ stream' = IF finally_closes(egg_fp, exc)
                 THEN [stream EXCEPT !.closed = @ + 1] ELSE stream
    /\ log' = Append(log, "Done.")
    /\ pc' = IF exc = NoError THEN "returned" ELSE "raised"
    /\ UNCHANGED <<sceneVars, weight_index, workerVars, copies, reloc_returns,
                   arg_use_rel_paths, filename, egg_fp, tex_dir, out, mesh_i,
                   exc, sanVars>>

Next ==
    \/ ExportEggWorkerInit
    \/ ProduceEggOpen
    \/ WriteHeader
    \/ WriteTextures
    \/ WriteMaterials
    \/ WriteGroupsOpen
    \/ WriteMeshObject
    \/ WriteArmature
    \/ WriteGroupsClose
    \/ Finally

Spec == Init /\ [][Next]_vars

(***************************************************************************)
(* Properties.                                                             *)
(***************************************************************************)

\* the vertices of a mesh object that carry a nonzero weight in a vertex
\* group of that object named after the bone
SkinnedVertices(mesh_obj, bone_name) ==
    {i - 1 : i \in {k \in 1..Len(mesh_obj.data.vertices) :
        \E e \in Range(mesh_obj.data.vertices[k].groups) :
            /\ e.group < Len(mesh_obj.vertex_groups)
            /\ mesh_obj.vertex_groups[e.group + 1] = bone_name
            /\ e.weight # 0}}

RECURSIVE SumOver(_, _)
SumOver(S, f) ==
    IF S = {} THEN 0
    ELSE LET x == CHOOSE y \in S : TRUE IN f[x] + SumOver(S \ {x}, f)

C2_TextureDedup ==
    /\ \A i, j \in 1..Len(reloc_returns) :
         reloc_returns[i].src = reloc_returns[j].src
            => reloc_returns[i].ret = reloc_returns[j].ret
    /\ \A fp \in {reloc_returns[i].src : i \in 1..Len(reloc_returns)} :
         Cardinality({k \in 1..Len(copies) : copies[k].src = fp}) = 1
    /\ \A k \in 1..Len(copies) :
         copies[k].src \in {reloc_returns[i].src : i \in 1..Len(reloc_returns)}

\* C2 witness: a path was requested three times, its one copy failed, and
\* another path was requested as well
C2_Witness ==
    /\ Cardinality({i \in 1..Len(reloc_returns) :
                        reloc_returns[i].src = PathSkin}) = 3
    /\ \E k \in 1..Len(copies) : copies[k].src = PathSkin /\ ~copies[k].ok
    /\ \E i \in 1..Len(reloc_returns) : reloc_returns[i].src = PathHair

\* C5 (as claimed): each of the five sanitizers is idempotent: applied to
\* its own result, it returns that result.
C5_AllIdempotent == san_count >= 2 => san_cur = san_prev

\* C5 (amended): good_bone_name, good_mesh_name, good_texture_name and
\* good_material_name are idempotent; good_file_name returns its own result
\* unchanged exactly when that result has no extension left, and otherwise
\* strips one more extension.
C5_IdempotentButFileName ==
    san_count >= 2 =>
        IF san_fn = "file"
        THEN /\ (san_cur = san_prev) <=> (splitext(san_prev).ext = <<>>)
             /\ san_cur = splitext(san_prev).root
        ELSE san_cur = san_prev

\* C5 witness: a material name with a space and a namespace prefix, or a
\* file name with two extensions, was sanitized twice
C5_Witness ==
    /\ san_count = 2
    /\ \/ san_fn = "material" /\ " " \in Range(san_in) /\ ":" \in Range(san_in)
          /\ san_cur # san_in
       \/ san_fn = "file" /\ san_cur # san_prev

\* C3: the output file is never closed more often than it was opened, and
\* when produce_egg (or the constructor) hands control back, by return or
\* by exception, a file that was opened has been closed once.
C3_StreamClosedOnExit ==
    /\ stream.closed <= stream.opened
    /\ pc \in {"returned", "raised"} => stream.closed = stream.opened

\* C3 witness: produce_egg ended with the KeyError of the vertex pool,
\* raised after part of the document was written, and the file is closed
C3_Witness ==
    /\ pc = "raised"
    /\ exc = Error("KeyError", "_write_vertexPool")
    /\ \E i \in 1..Len(out) : out[i].tag = "VertexPool"
    /\ stream = [opened |-> 1, closed |-> 1]

\* the nesting depth after the first n tokens of the document
Depth(n) ==
    Cardinality({i \in 1..n : out[i].k = "open"})
    - Cardinality({i \in 1..n : out[i].k = "close"})

\* C4 (as claimed): for every scene, if the writes themselves succeed, the
\* nesting depth of the document never goes below zero, and it is zero
\* once the file is closed: every block opened has been closed.
C4_BalancedDocument ==
    /\ \A n \in 0..Len(out) : Depth(n) >= 0
    /\ (stream.closed = 1 /\ exc.type # "IOError") => Depth(Len(out)) = 0

\* C6 (as claimed): when the textures folder cannot be created, the
\* condition is logged, neither the constructor nor the relocator raises,
\* and produce_egg is run.
C6_FolderFailureNotFatal ==
    (tex_dir = "uncreatable" /\ pc # "execute") =>
        /\ "Unable to create separate folder" \in Range(log)
        /\ exc.at \notin {"_get_sub_folder", "_copy_texture_to_new_location"}
        /\ pc # "raised" \/ stream.opened = 1

\* the image textures that _write_textures is to declare
DeclaredSlots == texture_visits(meshes)

\* C7 (as claimed): no function that derives a field of a Texture record
\* raises, and once the textures are exported every image texture of a
\* file image has its Texture block, also one with an unrecognized color
\* space, extension, repeat factor or mapping.
C7_UnrecognizedTextureDataWritten ==
    /\ exc.at \notin {"_get_image_format", "_get_texture_wrap_u",
                      "_get_texture_wrap_v", "_get_texture_type"}
    /\ "Exporting materials" \in Range(log) =>
          \A i \in 1..Len(DeclaredSlots) :
             \E n \in 1..Len(out) :
                out[n] = Open("Texture",
                              good_texture_name(
                                  DeclaredSlots[i].texture.image.filepath))

\* C8 (as claimed): the path of every Texture record is relative when the
\* operator's use_rel_paths is set and absolute when it is not.
C8_PathFollowsMode ==
    \A n \in 1..Len(out) :
        out[n].tag = "path" => (isabs(out[n].val) <=> ~arg_use_rel_paths)

\* C9 (as claimed): no material is declared twice, and once the materials
\* are exported every active material of a mesh is declared.
C9_OneRecordPerMaterial ==
    /\ \A i, j \in 1..Len(out) :
          (out[i].tag = "Material" /\ out[i] = out[j]) => i = j
    /\ "Exporting geometry & armature" \in Range(log) =>
          \A m \in 1..Len(meshes) :
             \E n \in 1..Len(out) :
                out[n] = Open("Material",
                              good_material_name(meshes[m].active_material.name))

\* the Vertex records between the opening of the vertex pool at token n
\* and the next vertex pool
VerticesOfPool(n) ==
    LET later == {j \in (n + 1)..Len(out) : out[j].tag = "VertexPool"}
        last == IF later = {} THEN Len(out)
                ELSE (CHOOSE j \in later : \A l \in later : j <= l) - 1
        inside == SelectSeq(SubSeq(out, n + 1, last),
                            LAMBDA t : t.tag = "Vertex")
    IN  [i \in 1..Len(inside) |-> inside[i].val[1]]

\* C10 (as claimed): once _write_vertexPool has run for a mesh, the pool
\* holds one Vertex record per vertex of the mesh, in index order, and the
\* pool block is closed.
C10_VertexPoolComplete ==
    \A m \in 1..Len(meshes) :
        \A n \in 1..Len(out) :
            (pc # "idle" /\ out[n] = Open("VertexPool", pool_name(meshes[m].data.name)))
            => /\ VerticesOfPool(n)
                    = [i \in 1..Len(meshes[m].data.vertices) |-> i - 1]
               /\ \E j \in (n + 1)..Len(out) :
                     out[j].k = "close" /\ Depth(j) = Depth(n - 1)

\* the position of the close that ends the block opened at token n
BlockEnd(n) ==
    CHOOSE j \in (n + 1)..Len(out) :
        /\ Depth(j) = Depth(n - 1)
        /\ \A i \in n..(j - 1) : Depth(i) > Depth(n - 1)

\* the positions of the blocks opened directly inside the block of token
\* n, in the order of the document
BlocksInside(n) ==
    SelectSeq([i \in 1..(BlockEnd(n) - n - 1) |-> n + i],
              LAMBDA j : out[j].k = "open" /\ Depth(j) = Depth(n) + 1)

\* the value of the first leaf with the tag after token r
LeafAfter(r, tag) ==
    out[CHOOSE j \in (r + 1)..Len(out) :
            /\ out[j].tag = tag
            /\ \A i \in (r + 1)..(j - 1) : out[i].tag # tag].val

\* the name of the mesh object that the VertexRef record at token r refers to
RefMeshName(r) ==
    LET o == CHOOSE i \in 1..Len(meshes) :
                 pool_name(meshes[i].name) = LeafAfter(r, "Ref")
    IN  meshes[o].name

\* the vertex indices that the VertexRef record at token r lists
RefIndices(r) ==
    LET leaves == SelectSeq(SubSeq(out, r + 1, BlockEnd(r) - 1),
                            LAMBDA t : t.tag = "index")
    IN  [i \in 1..Len(leaves) |-> leaves[i].val[1]]

\* the bone whose Joint is opened at token n
BoneOfJoint(n) ==
    CHOOSE b \in 1..Len(human.bones) :
        good_bone_name(human.bones[b].name) = out[n].val

\* C11: in the document, the first Joint is that of the first root bone,
\* and every Joint block consists of, in this order: its Transform with the
\* translation; the Joint blocks of the bone's children in the order of
\* the bone's child list; the bone's VertexRef records, ascending by mesh
\* name and, within a mesh, ascending by the text of the quantized weight,
\* each listing its vertex indices in ascending order; its close.
C11_JointOrder ==
    \A n \in 1..Len(out) :
        out[n].tag = "Joint" =>
            LET inside == BlocksInside(n)
                joints == SelectSeq(inside, LAMBDA j : out[j].tag = "Joint")
                refs == SelectSeq(inside, LAMBDA j : out[j].tag = "VertexRef")
                bone == human.bones[BoneOfJoint(n)]
            IN  /\ (\A i \in 1..(n - 1) : out[i].tag # "Joint")
                      => bone.parent = 0
                         /\ \A b \in 1..(BoneOfJoint(n) - 1) :
                               human.bones[b].parent # 0
                /\ out[n + 1] = Open("Transform", <<>>)
                /\ out[n + 2].tag = "Translate"
                /\ out[n + 3] = Close
                /\ inside = <<n + 1>> \o joints \o refs
                /\ [i \in 1..Len(joints) |-> out[joints[i]].val]
                      = [i \in 1..Len(bone.children) |->
                            good_bone_name(human.bones[bone.children[i]].name)]
                /\ \A i \in 1..(Len(refs) - 1) :
                      \/ str_less(RefMeshName(refs[i]), RefMeshName(refs[i + 1]))
                      \/ /\ RefMeshName(refs[i]) = RefMeshName(refs[i + 1])
                         /\ str_less(LeafAfter(refs[i], "Scalar membership"),
                                     LeafAfter(refs[i + 1], "Scalar membership"))
                /\ \A i \in 1..Len(refs) :
                      LET listed == RefIndices(refs[i])
                      IN  \A k \in 1..(Len(listed) - 1) :
                              listed[k] < listed[k + 1]
                /\ BlockEnd(n) = BlockEnd(inside[Len(inside)]) + 1

\* C11 witness: the root bone's Joint was written with the Joints of its
\* two children, in child-list order, followed by three VertexRef records:
\* two weights of the first mesh and one of the second
C11_Witness ==
    /\ pc = "returned"
    /\ \E n \in 1..Len(out) :
          /\ out[n] = Open("Joint", good_bone_name(BoneRoot))
          /\ LET inside == BlocksInside(n)
                 refs == SelectSeq(inside, LAMBDA j : out[j].tag = "VertexRef")
             IN  /\ Len(refs) = 3
                 /\ out[inside[2]] = Open("Joint", good_bone_name(BoneChildR))
                 /\ out[inside[3]] = Open("Joint", good_bone_name(BoneChildL))
                 /\ RefMeshName(refs[1]) = MeshBody
                 /\ RefMeshName(refs[2]) = MeshBody
                 /\ RefMeshName(refs[3]) = MeshHair
                 /\ RefIndices(refs[1]) = <<1>>
                 /\ RefIndices(refs[2]) = <<0>>

\* C12 (as claimed): in a document that produce_egg completed, every
\* texture name that a Polygon record refers to with a TRef is the name of
\* a Texture record written earlier in the document.
C12_TRefDeclared ==
    pc = "returned" =>
        \A n \in 1..Len(out) :
            out[n].tag = "TRef" =>
                \E m \in 1..(n - 1) : out[m] = Open("Texture", out[n].val)

====
